---- MODULE Spec2Model ----
(***************************************************************************)
(* Model of Knot's Blob-to-Blob Hash Table (src/hashtable.h).              *)
(*                                                                         *)
(* A KH_Dict is modelled by the four fields of the C structure.  Arrays    *)
(* are functions over 0..n-1; the NULL array is the function with the      *)
(* empty domain.  A blob pointer is NULL (the empty tuple) or <<b>> for a  *)
(* blob record b = [length, hash, data].  The pair array keeps whatever    *)
(* the code leaves in it, including the stale entries beyond data_count.   *)
(***************************************************************************)
EXTENDS Integers, Sequences, FiniteSets, TLC

VARIABLES
    st,            \* lifecycle of the KH_Dict object
    slots,         \* self->slots
    pairs,         \* self->pairs
    data_count,    \* self->data_count
    data_alloced,  \* self->data_alloced
    last,          \* the last call that may change the dictionary (create, set,
                   \* delete, release): its arguments, result and frees
    introduced,    \* how many keys of KeyOrder the caller has used in a Set
    calls,         \* how many KH_DictSet and KH_DictDelete calls were made
    recent,        \* per key, the value of its most recent successful Set
                   \* (NoArg: never set, or removed since)
    nodelete,      \* no KH_DictDelete call was made so far
    everset,       \* a KH_DictSet call has returned true on this dictionary
    allocfail,     \* a malloc of the last KH_DictSet call returned NULL
    abs,           \* the ordered map the caller's successful calls describe:
                   \* a sequence of <<key bytes, value bytes>>
    tracking,      \* whether the blobs passed to KH_DictSet carry the address
                   \* of their allocation (1, 2, ...) or the address 0
    frees,         \* per address, how often it was passed to free
    lost           \* the addresses passed to a KH_DictSet whose malloc failed

vars == <<st, slots, pairs, data_count, data_alloced, last, introduced, calls,
          recent, nodelete, everset, allocfail, abs, tracking, frees, lost>>

----------------------------------------------------------------------------
(* Program constants *)

\* 0xffffffff and 0xfffffffe of the uint32_t KH_Slot, written as the int32
\* reading of the same bits (TLC's integers are 32 bits wide).  The code only
\* compares a slot with > after it has excluded both markers (line 406).
KH_HASH_EMPTY == -1
KH_HASH_DELETED == -2
\* ((size_t)-1), the size_t with every bit set.  KH_DictLookupIndex returns
\* it or a slot that is neither marker, so it is never confused with a slot.
KH_NOT_FOUND == -1
HashSeed == 5381
InitialSize == 8
Two16 == 65536

NULL == <<>>
NullArray == [i \in {} |-> 0]

----------------------------------------------------------------------------
(* Bit operations on naturals *)

RECURSIVE BitXor(_, _)
BitXor(a, b) ==
    IF a = 0 THEN b
    ELSE IF b = 0 THEN a
    ELSE (((a % 2) + (b % 2)) % 2) + (2 * BitXor(a \div 2, b \div 2))

RECURSIVE BitAnd(_, _)
BitAnd(a, b) ==
    IF a = 0 \/ b = 0 THEN 0
    ELSE ((a % 2) * (b % 2)) + (2 * BitAnd(a \div 2, b \div 2))

\* A uint32_t is kept as its two 16-bit halves <<high, low>>, so that the
\* arithmetic modulo 2^32 is exact.
U32(n) == <<(n \div Two16) % Two16, n % Two16>>
Shl5(h) == <<((h[1] * 32) + ((h[2] * 32) \div Two16)) % Two16, (h[2] * 32) % Two16>>
Add32(a, b) == <<(a[1] + b[1] + ((a[2] + b[2]) \div Two16)) % Two16, (a[2] + b[2]) % Two16>>
Xor32(a, b) == <<BitXor(a[1], b[1]), BitXor(a[2], b[2])>>
And32(a, b) == <<BitAnd(a[1], b[1]), BitAnd(a[2], b[2])>>
ToNat(h) == (h[1] * Two16) + h[2]

----------------------------------------------------------------------------
(* Blobs *)

RECURSIVE HashFrom(_, _, _)
HashFrom(hash, buffer, i) ==
    IF i > Len(buffer) THEN hash
    ELSE HashFrom(Xor32(Add32(Shl5(hash), hash), U32(buffer[i])), buffer, i + 1)

KH_Hash(buffer) == HashFrom(U32(HashSeed), buffer, 1)

\* The blob a successful KH_CreateBlob(buffer, Len(buffer)) points to
KH_CreateBlob(buffer) ==
    [length |-> Len(buffer), hash |-> KH_Hash(buffer), data |-> buffer]

\* Mutant: trusts the cached hash and never compares the bytes
KH_BlobEqual_HashOnly(blob1, blob2) ==
    ~(blob1.hash # blob2.hash \/ blob1.length # blob2.length)

\* The blob at the address malloc returned for it (0: an address the model
\* does not tell from others)
Allocated(blob, addr) ==
    [length |-> blob.length, hash |-> blob.hash, data |-> blob.data, addr |-> addr]

\* free(ptrs[1]), free(ptrs[2]), ...: the counts of fr after these calls;
\* free(NULL) does nothing
Free(fr, ptrs) ==
    [a \in DOMAIN fr |->
        fr[a] + Cardinality({i \in 1..Len(ptrs) : ptrs[i] # NULL /\ ptrs[i][1].addr = a})]

\* Mutant: returns memcmp's result without comparing it with 0
KH_BlobEqual_MemcmpTruthy(blob1, blob2) ==
    IF blob1.hash # blob2.hash \/ blob1.length # blob2.length THEN FALSE
    ELSE \E i \in 1..blob1.length : blob1.data[i] # blob2.data[i]

\* Called on an argument and a stored key, which are distinct allocations
KH_BlobEqual(blob1, blob2) ==
    IF blob1.hash # blob2.hash \/ blob1.length # blob2.length THEN FALSE
    ELSE \A i \in 1..blob1.length : blob1.data[i] = blob2.data[i]

----------------------------------------------------------------------------
(* The caller's workload *)

\* The caller makes at most MaxCalls calls of KH_DictSet and KH_DictDelete,
\* and at most MaxLifeCalls when the addresses of its blobs are followed
MaxCalls == 8
MaxLifeCalls == 6

\* The byte strings the caller uses as keys, in the order in which it first
\* sets them.  In an 8-slot table <<0>>, <<8>>, <<16>> have the home bucket 5
\* and <<2>>, <<0,2>>, <<3,33>> the home bucket 7 (so probing wraps around);
\* in a 16-slot table <<8>> moves to 13.  <<0,2>> and <<3,33>> have the same
\* 32-bit hash.
KeyOrder == << <<0>>, <<8>>, <<2>>, <<0, 2>>, <<3, 33>>, <<16>> >>

KeyData == {KeyOrder[i] : i \in 1..Len(KeyOrder)}

\* The values the caller sets each key to: every key has a value of its own,
\* and the key <<8>> a second one
ValuesOf(k) ==
    {<<CHOOSE i \in 1..Len(KeyOrder) : KeyOrder[i] = k>>}
        \cup (IF k = <<8>> THEN {<<100>>} ELSE {})

ValueData == UNION {ValuesOf(k) : k \in KeyData}

\* A second caller, which keeps deleting pairs and setting new keys: its
\* keys in the order in which it sets them, each once.  In an 8-slot table they
\* have the home buckets 0, 0, 2, 2, 4, 4, 6, 6.  It makes at most
\* MaxChurnCalls calls of KH_DictSet and KH_DictDelete.
MaxChurnCalls == 12
ChurnOrder == << <<5>>, <<13>>, <<7>>, <<15>>, <<1>>, <<9>>, <<3>>, <<11>> >>
ChurnData == {ChurnOrder[i] : i \in 1..Len(ChurnOrder)}
ChurnOrderOf(k) == CHOOSE i \in 1..Len(ChurnOrder) : ChurnOrder[i] = k

\* The one value this caller sets the key k to
ChurnValueOf(k) == <<k[1] + 100>>

BlobOf ==
    [d \in KeyData \cup ValueData \cup ChurnData \cup {ChurnValueOf(k) : k \in ChurnData} |->
        KH_CreateBlob(d)]

\* Two byte strings of different length with the same 32-bit hash
\* (2388981903), and the blobs KH_BlobEqual is compared on: these two and
\* the caller's keys
SameHashShort == <<200, 159, 176, 174, 33, 194>>
SameHashLong == <<211, 39, 105, 192, 47, 114, 10>>
EqualityInputs == KeyData \cup {SameHashShort, SameHashLong}
EqualityBlobs == [d \in EqualityInputs |-> KH_CreateBlob(d)]

\* What KH_BlobEqual returns on each two of these blobs, and whether their
\* buffers have the same length and the same bytes
BlobEqualOnInputs ==
    [a \in EqualityInputs |-> [b \in EqualityInputs |->
        KH_BlobEqual(EqualityBlobs[a], EqualityBlobs[b])]]
ByteEqualOnInputs ==
    [a \in EqualityInputs |-> [b \in EqualityInputs |->
        Len(a) = Len(b) /\ \A i \in 1..Len(a) : a[i] = b[i]]]

----------------------------------------------------------------------------
(* The dictionary's internal functions, on self = [slots, pairs,           *)
(* data_count, data_alloced]                                               *)

Self ==
    [slots |-> slots, pairs |-> pairs,
     data_count |-> data_count, data_alloced |-> data_alloced]

\* hash & (size - 1); with size = 0 the mask is all ones
KH_BlobStartingIndexForSize(hash, size) ==
    IF size = 0 THEN hash ELSE And32(hash, U32(size - 1))

IsFreeSlot(s) == s = KH_HASH_EMPTY \/ s = KH_HASH_DELETED

\* Mutant: probes downwards from the home bucket
RECURSIVE InsertSlotFrom_Backwards(_, _, _, _)
InsertSlotFrom_Backwards(sl, nslots, slot_index, index) ==
    IF IsFreeSlot(sl[slot_index])
    THEN [sl EXCEPT ![slot_index] = index]
    ELSE InsertSlotFrom_Backwards(sl, nslots,
                                  BitAnd(slot_index + nslots - 1, nslots - 1), index)

\* The while (1) loop of KH_InsertSlot from slot_index on
RECURSIVE InsertSlotFrom(_, _, _, _)
InsertSlotFrom(sl, nslots, slot_index, index) ==
    IF IsFreeSlot(sl[slot_index])
    THEN [sl EXCEPT ![slot_index] = index]
    ELSE InsertSlotFrom(sl, nslots, BitAnd(slot_index + 1, nslots - 1), index)

\* The loop of KH_InsertSlot ends only at a free slot
InsertSlotTerminates(sl) == \E i \in DOMAIN sl : IsFreeSlot(sl[i])

KH_InsertSlot(sl, nslots, hash, index) ==
    InsertSlotFrom(sl, nslots, ToNat(KH_BlobStartingIndexForSize(hash, nslots)), index)

\* How many slots the loop of KH_InsertSlot reads from slot_index on, n
\* being the number it has read already: the count up to the free slot it
\* stops at, or nslots + 1 when it has read nslots slots and found none
RECURSIVE InsertSlotReads(_, _, _, _)
InsertSlotReads(sl, nslots, slot_index, n) ==
    IF n >= nslots THEN nslots + 1
    ELSE IF IsFreeSlot(sl[slot_index]) THEN n + 1
    ELSE InsertSlotReads(sl, nslots, BitAnd(slot_index + 1, nslots - 1), n + 1)

NullPair == [key |-> NULL, value |-> NULL]

\* Mutant: clears the new slot array to zero bytes, as the pair array
EmptySlots_Zeroed(new_size) == [i \in 0..(new_size - 1) |-> 0]

\* for (i = 0; i < new_size; i++) new_slots[i] = KH_HASH_EMPTY;
EmptySlots(new_size) == [i \in 0..(new_size - 1) |-> KH_HASH_EMPTY]

\* The copy loop of KH_ResizeDict: i is the loop index, j the new count
RECURSIVE ResizeCopy(_, _, _, _, _, _)
ResizeCopy(self, new_slots, new_pairs, new_size, i, j) ==
    IF i >= self.data_alloced
       \/ self.pairs[i].key = NULL \/ self.pairs[i].value = NULL
    THEN [slots |-> new_slots, pairs |-> new_pairs,
          data_count |-> j, data_alloced |-> new_size]
    ELSE ResizeCopy(self,
                    KH_InsertSlot(new_slots, new_size, self.pairs[i].key[1].hash, j),
                    [new_pairs EXCEPT ![j] = [key |-> self.pairs[i].key,
                                              value |-> self.pairs[i].value]],
                    new_size, i + 1, j + 1)

\* Mutant: copies the old slot array into the new one instead of placing
\* every pair again from its home bucket in the new capacity
KH_ResizeDict_NoRehash(self, okSlots, okPairs) ==
    LET new_size == IF self.data_alloced # 0 THEN 2 * self.data_alloced ELSE InitialSize
        copied == ResizeCopy(self,
                             [i \in 0..(new_size - 1) |-> KH_HASH_EMPTY],
                             [i \in 0..(new_size - 1) |-> NullPair],
                             new_size, 0, 0)
    IN  IF ~okSlots \/ ~okPairs
        THEN [ok |-> FALSE, self |-> self]
        ELSE [ok |-> TRUE,
              self |-> [copied EXCEPT !.slots =
                            [i \in 0..(new_size - 1) |->
                                IF i < self.data_alloced THEN self.slots[i]
                                ELSE KH_HASH_EMPTY]]]

\* Mutant: installs the new slot array before it checks the pair array's
\* allocation
KH_ResizeDict_EarlyCommit(self, okSlots, okPairs) ==
    LET new_size == IF self.data_alloced # 0 THEN 2 * self.data_alloced ELSE InitialSize
    IN  IF ~okSlots THEN [ok |-> FALSE, self |-> self]
        ELSE IF ~okPairs
        THEN [ok |-> FALSE,
              self |-> [self EXCEPT !.slots = [i \in 0..(new_size - 1) |-> KH_HASH_EMPTY],
                                    !.data_alloced = new_size]]
        ELSE [ok |-> TRUE,
              self |-> ResizeCopy(self,
                                  [i \in 0..(new_size - 1) |-> KH_HASH_EMPTY],
                                  [i \in 0..(new_size - 1) |-> NullPair],
                                  new_size, 0, 0)]

\* Mutant: grows to three times the capacity
KH_ResizeDict_Triples(self, okSlots, okPairs) ==
    LET new_size == IF self.data_alloced # 0 THEN 3 * self.data_alloced ELSE InitialSize
    IN  IF ~okSlots \/ ~okPairs
        THEN [ok |-> FALSE, self |-> self]
        ELSE [ok |-> TRUE,
              self |-> ResizeCopy(self,
                                  [i \in 0..(new_size - 1) |-> KH_HASH_EMPTY],
                                  [i \in 0..(new_size - 1) |-> NullPair],
                                  new_size, 0, 0)]

\* okSlots, okPairs: whether the two malloc calls succeed
KH_ResizeDict(self, okSlots, okPairs) ==
    LET new_size == IF self.data_alloced # 0 THEN 2 * self.data_alloced ELSE InitialSize
    IN  IF ~okSlots \/ ~okPairs
        THEN [ok |-> FALSE, self |-> self]
        ELSE [ok |-> TRUE,
              self |-> ResizeCopy(self,
                                  EmptySlots(new_size),
                                  [i \in 0..(new_size - 1) |-> NullPair],
                                  new_size, 0, 0)]

\* Mutant: resizes only when every slot is taken
ResizeThreshold_Full(alloced) == alloced

\* Mutant: resizes at every insert
ResizeThreshold_Zero(alloced) == 0

ResizeThreshold(alloced) == (alloced \div 2) + (alloced \div 8)

\* The calls of KH_InsertSlot the copy loop of KH_ResizeDict makes from loop
\* index i on, each with the slot array it is given; a call on a slot array
\* without a free slot does not return, and no call follows it
RECURSIVE ResizeInsertCalls(_, _, _, _, _)
ResizeInsertCalls(self, new_slots, new_size, i, j) ==
    IF i >= self.data_alloced
       \/ self.pairs[i].key = NULL \/ self.pairs[i].value = NULL
    THEN <<>>
    ELSE LET call == [slots |-> new_slots, nslots |-> new_size,
                      hash |-> self.pairs[i].key[1].hash]
         IN  IF ~InsertSlotTerminates(new_slots) THEN <<call>>
             ELSE <<call>> \o
                  ResizeInsertCalls(self,
                                    KH_InsertSlot(new_slots, new_size, call.hash, j),
                                    new_size, i + 1, j + 1)

\* The calls of KH_InsertSlot that KH_DictInsert(self, key, value) makes when
\* its allocations succeed: those of the resize, if it resizes, and its own
InsertSlotCalls(self, key) ==
    IF self.data_count >= ResizeThreshold(self.data_alloced)
    THEN LET new_size == IF self.data_alloced # 0 THEN 2 * self.data_alloced
                         ELSE InitialSize
             copying == ResizeInsertCalls(self, EmptySlots(new_size), new_size, 0, 0)
         IN  IF \E c \in 1..Len(copying) : ~InsertSlotTerminates(copying[c].slots)
             THEN copying
             ELSE Append(copying,
                         [slots |-> KH_ResizeDict(self, TRUE, TRUE).self.slots,
                          nslots |-> new_size, hash |-> key.hash])
    ELSE <<[slots |-> self.slots, nslots |-> self.data_alloced, hash |-> key.hash]>>

\* Mutant: stores the pair and its slot and leaves the count as it is
InsertPair_NoCount(self, key, value) ==
    [self EXCEPT
        !.pairs = [self.pairs EXCEPT ![self.data_count] = [key |-> <<key>>, value |-> <<value>>]],
        !.slots = KH_InsertSlot(self.slots, self.data_alloced, key.hash, self.data_count)]

\* Lines 332-339 of KH_DictInsert, once the resize check has passed
InsertPair(self, key, value) ==
    [self EXCEPT
        !.pairs = [self.pairs EXCEPT ![self.data_count] = [key |-> <<key>>, value |-> <<value>>]],
        !.slots = KH_InsertSlot(self.slots, self.data_alloced, key.hash, self.data_count),
        !.data_count = self.data_count + 1]

KH_DictInsert(self, key, value, okSlots, okPairs) ==
    IF self.data_count >= ResizeThreshold(self.data_alloced)
    THEN LET r == KH_ResizeDict(self, okSlots, okPairs)
         IN  IF ~r.ok
             THEN [ret |-> FALSE, self |-> r.self, stored |-> {}]
             ELSE [ret |-> TRUE, self |-> InsertPair(r.self, key, value),
                   stored |-> {"key", "value"}]
    ELSE [ret |-> TRUE, self |-> InsertPair(self, key, value),
          stored |-> {"key", "value"}]

\* Mutant: frees the old value and forgets to store the new one
KH_DictChange_KeepsOld(self, index, value) == self

KH_DictChange(self, index, value) ==
    [self EXCEPT !.pairs = [self.pairs EXCEPT ![index] = [@ EXCEPT !.value = <<value>>]]]

\* Mutant: ends the scan at a deleted slot as it does at an empty one
RECURSIVE LookupFrom_StopsAtDeleted(_, _, _, _)
LookupFrom_StopsAtDeleted(self, key, slot_index, i) ==
    IF i >= self.data_alloced THEN [index |-> KH_NOT_FOUND, reads |-> i]
    ELSE LET slot == self.slots[BitAnd(slot_index + i, self.data_alloced - 1)]
         IN  IF slot = KH_HASH_EMPTY \/ slot = KH_HASH_DELETED
             THEN [index |-> KH_NOT_FOUND, reads |-> i + 1]
             ELSE IF KH_BlobEqual(key, self.pairs[slot].key[1])
                  THEN [index |-> slot, reads |-> i + 1]
             ELSE LookupFrom_StopsAtDeleted(self, key, slot_index, i + 1)

\* Mutant: gives up one slot before the scan has gone round the table
RECURSIVE LookupFrom_ShortScan(_, _, _, _)
LookupFrom_ShortScan(self, key, slot_index, i) ==
    IF i >= self.data_alloced - 1 THEN [index |-> KH_NOT_FOUND, reads |-> i]
    ELSE LET slot == self.slots[BitAnd(slot_index + i, self.data_alloced - 1)]
         IN  IF slot = KH_HASH_EMPTY THEN [index |-> KH_NOT_FOUND, reads |-> i + 1]
             ELSE IF slot = KH_HASH_DELETED
                  THEN LookupFrom_ShortScan(self, key, slot_index, i + 1)
             ELSE IF KH_BlobEqual(key, self.pairs[slot].key[1])
                  THEN [index |-> slot, reads |-> i + 1]
             ELSE LookupFrom_ShortScan(self, key, slot_index, i + 1)

\* The for loop of KH_DictLookupIndex from iteration i on: the value it
\* returns and the number of slots it reads
RECURSIVE LookupFrom(_, _, _, _)
LookupFrom(self, key, slot_index, i) ==
    IF i >= self.data_alloced THEN [index |-> KH_NOT_FOUND, reads |-> i]
    ELSE LET slot == self.slots[BitAnd(slot_index + i, self.data_alloced - 1)]
         IN  IF slot = KH_HASH_EMPTY THEN [index |-> KH_NOT_FOUND, reads |-> i + 1]
             ELSE IF slot = KH_HASH_DELETED THEN LookupFrom(self, key, slot_index, i + 1)
             ELSE IF KH_BlobEqual(key, self.pairs[slot].key[1])
                  THEN [index |-> slot, reads |-> i + 1]
             ELSE LookupFrom(self, key, slot_index, i + 1)

LookupScan(self, key) ==
    LookupFrom(self, key,
               ToNat(KH_BlobStartingIndexForSize(key.hash, self.data_alloced)), 0)

KH_DictLookupIndex(self, key) == LookupScan(self, key).index

\* Mutant: fills the gap with the last pair instead of shifting
MovePairs_SwapLast(prs, i, count) ==
    IF i >= count THEN prs ELSE [prs EXCEPT ![i - 1] = prs[count - 1]]

\* for (i = index + 1; i < data_count; i++) pairs[i - 1] = pairs[i];
RECURSIVE MovePairs(_, _, _)
MovePairs(prs, i, count) ==
    IF i >= count THEN prs
    ELSE MovePairs([prs EXCEPT ![i - 1] = prs[i]], i + 1, count)

\* Mutant: leaves the indexes above the removed one as they are
FixupSlot_NoDecrement(s, index) ==
    IF s = KH_HASH_DELETED \/ s = KH_HASH_EMPTY THEN s
    ELSE IF s = index THEN KH_HASH_DELETED
    ELSE s

\* Mutant: marks the removed pair's slot EMPTY instead of DELETED
FixupSlot_MarksEmpty(s, index) ==
    IF s = KH_HASH_DELETED \/ s = KH_HASH_EMPTY THEN s
    ELSE IF s > index THEN s - 1
    ELSE IF s = index THEN KH_HASH_EMPTY
    ELSE s

\* Mutant: resets the deleted slots it passes to EMPTY
FixupSlot_ClearsDeleted(s, index) ==
    IF s = KH_HASH_EMPTY THEN s
    ELSE IF s = KH_HASH_DELETED THEN KH_HASH_EMPTY
    ELSE IF s > index THEN s - 1
    ELSE IF s = index THEN KH_HASH_DELETED
    ELSE s

\* Mutant: lowers the removed index itself as it lowers those above it
FixupSlot_DecrementsFrom(s, index) ==
    IF s = KH_HASH_DELETED \/ s = KH_HASH_EMPTY THEN s
    ELSE IF s >= index THEN s - 1
    ELSE s

\* The slot fixup of KH_DictRemove, for one slot
FixupSlot(s, index) ==
    IF s = KH_HASH_DELETED \/ s = KH_HASH_EMPTY THEN s
    ELSE IF s > index THEN s - 1
    ELSE IF s = index THEN KH_HASH_DELETED
    ELSE s

\* Mutant: compacts the pair array and leaves the slot array as it is
KH_DictRemove_NoFixup(self, index) ==
    [self EXCEPT
        !.pairs = MovePairs(self.pairs, index + 1, self.data_count),
        !.data_count = self.data_count - 1]

\* Mutant: gives the arrays back when the last pair is removed
KH_DictRemove_Shrinks(self, index) ==
    IF self.data_count = 1
    THEN [slots |-> NullArray, pairs |-> NullArray, data_count |-> 0, data_alloced |-> 0]
    ELSE [self EXCEPT
            !.pairs = MovePairs(self.pairs, index + 1, self.data_count),
            !.data_count = self.data_count - 1,
            !.slots = [i \in DOMAIN self.slots |-> FixupSlot(self.slots[i], index)]]

\* Mutant: compacts and fixes the slots up, and leaves the count as it is
KH_DictRemove_KeepsCount(self, index) ==
    [self EXCEPT
        !.pairs = MovePairs(self.pairs, index + 1, self.data_count),
        !.slots = [i \in DOMAIN self.slots |-> FixupSlot(self.slots[i], index)]]

KH_DictRemove(self, index) ==
    [self EXCEPT
        !.pairs = MovePairs(self.pairs, index + 1, self.data_count),
        !.data_count = self.data_count - 1,
        !.slots = [i \in DOMAIN self.slots |-> FixupSlot(self.slots[i], index)]]

----------------------------------------------------------------------------
(* The public functions.  Each returns the fields of the dictionary after  *)
(* the call, the C return value, the arguments it passed to free           *)
(* ("key", "value") or stored in the pair array, and the stored blobs it   *)
(* freed ("pairs.key", "pairs.value").                                     *)

\* Mutant: inserts without looking the key up
KH_DictSet_AlwaysInsert(self, key, value, okSlots, okPairs) ==
    LET r == KH_DictInsert(self, key, value, okSlots, okPairs)
    IN  [self |-> r.self, ret |-> r.ret, freed |-> {}, stored |-> r.stored]

KH_DictSet(self, key, value, okSlots, okPairs) ==
    LET index == KH_DictLookupIndex(self, key)
    IN  IF index = KH_NOT_FOUND
        THEN LET r == KH_DictInsert(self, key, value, okSlots, okPairs)
             IN  [self |-> r.self, ret |-> r.ret, freed |-> {}, stored |-> r.stored]
        ELSE [self |-> KH_DictChange(self, index, value), ret |-> TRUE,
              freed |-> {"pairs.value", "key"}, stored |-> {"value"}]

KH_DictGet(self, key) ==
    LET index == KH_DictLookupIndex(self, key)
    IN  [self |-> self,
         ret |-> IF index = KH_NOT_FOUND THEN NULL ELSE self.pairs[index].value,
         freed |-> {"key"}, stored |-> {}]

KH_DictHas(self, key) ==
    LET index == KH_DictLookupIndex(self, key)
    IN  [self |-> self, ret |-> index # KH_NOT_FOUND, freed |-> {"key"}, stored |-> {}]

KH_DictDelete(self, key) ==
    LET index == KH_DictLookupIndex(self, key)
    IN  IF index = KH_NOT_FOUND
        THEN [self |-> self, ret |-> FALSE, freed |-> {"key"}, stored |-> {}]
        ELSE [self |-> KH_DictRemove(self, index), ret |-> TRUE,
              freed |-> {"pairs.key", "pairs.value", "key"}, stored |-> {}]

\* Mutant: returns whatever the pair array holds at the index
KH_DictKeyIter_NoBound(self, index) ==
    IF index \in DOMAIN self.pairs THEN self.pairs[index].key ELSE NULL

\* The pointers the calls pass to free, in the order of the calls
DictSetFrees(self, key, value) ==
    LET index == KH_DictLookupIndex(self, key)
    IN  IF index = KH_NOT_FOUND THEN <<>>
        ELSE <<self.pairs[index].value, <<key>>>>

DictDeleteFrees(self, key) ==
    LET index == KH_DictLookupIndex(self, key)
    IN  IF index = KH_NOT_FOUND THEN << <<key>> >>
        ELSE <<self.pairs[index].key, self.pairs[index].value, <<key>>>>

\* Mutant: frees every pair of the array that is not NULL
ReleaseDictFrees_WholeArray(self) ==
    [n \in 1..(2 * self.data_alloced) |->
        IF n % 2 = 1 THEN self.pairs[(n - 1) \div 2].key
        ELSE self.pairs[(n - 1) \div 2].value]

ReleaseDictFrees(self) ==
    [n \in 1..(2 * self.data_count) |->
        IF n % 2 = 1 THEN self.pairs[(n - 1) \div 2].key
        ELSE self.pairs[(n - 1) \div 2].value]

KH_DictKeyIter(self, index) ==
    IF index < self.data_count THEN self.pairs[index].key ELSE NULL

KH_DictValueIter(self, index) ==
    IF index < self.data_count THEN self.pairs[index].value ELSE NULL

KH_DictLen(self) == self.data_count

----------------------------------------------------------------------------------------------------------------------------------------------
(* The state machine: one action per public call *)

NoArg == <<>>

\* The ordered map the documentation describes, as a sequence of
\* <<key, value>> without duplicate keys
AbsIndex(a, k) ==
    IF \E i \in 1..Len(a) : a[i][1] = k
    THEN CHOOSE i \in 1..Len(a) : a[i][1] = k
    ELSE 0

\* Set replaces the value in place if the key exists and appends otherwise
AbsSet(a, k, v) ==
    IF AbsIndex(a, k) # 0
    THEN [a EXCEPT ![AbsIndex(a, k)] = <<k, v>>]
    ELSE Append(a, <<k, v>>)

\* Delete removes the entry and keeps the order of the others
AbsDelete(a, k) ==
    IF AbsIndex(a, k) = 0 THEN a
    ELSE [i \in 1..(Len(a) - 1) |-> IF i < AbsIndex(a, k) THEN a[i] ELSE a[i + 1]]

AbsGet(a, k) == IF AbsIndex(a, k) = 0 THEN NoArg ELSE a[AbsIndex(a, k)][2]

Call(op, key, value, ret, freed, stored) ==
    [op |-> op, key |-> key, value |-> value, ret |-> ret,
     freed |-> freed, stored |-> stored]

Init ==
    /\ st = "uninit"
    /\ slots = NullArray
    /\ pairs = NullArray
    /\ data_count = 0
    /\ data_alloced = 0
    /\ last = Call("none", NoArg, NoArg, FALSE, {}, {})
    /\ introduced = 0
    /\ calls = 0
    /\ recent = [k \in KeyData |-> NoArg]
    /\ nodelete = TRUE
    /\ everset = FALSE
    /\ allocfail = FALSE
    /\ abs = <<>>
    /\ tracking = FALSE
    /\ frees = <<>>
    /\ lost = {}

\* What the call leaves in the dictionary's fields
Becomes(self) ==
    /\ slots' = self.slots
    /\ pairs' = self.pairs
    /\ data_count' = self.data_count
    /\ data_alloced' = self.data_alloced

\* KH_CreateDict: malloc, then memset of the result without a NULL check.
\* When malloc returns NULL the memset of NULL is undefined: the build either
\* faults there or (malloc and memset merged into calloc) returns NULL.
CreateDict(ok) ==
    /\ st = "uninit"
    /\ Becomes([slots |-> NullArray, pairs |-> NullArray,
                data_count |-> 0, data_alloced |-> 0])
    /\ IF ok
       THEN /\ st' = "alive"
            /\ last' = Call("CreateDict", NoArg, NoArg, TRUE, {}, {})
       ELSE /\ st' \in {"crashed", "null"}
            /\ last' = Call("CreateDict", NoArg, NoArg, FALSE, {}, {})
    /\ UNCHANGED <<introduced, calls, recent, nodelete, everset, allocfail, abs,
                   tracking, frees, lost>>

\* The position of key k in KeyOrder
OrderOf(k) == CHOOSE i \in 1..Len(KeyOrder) : KeyOrder[i] = k

\* KH_ResizeDict calls malloc (twice) only when KH_DictInsert resizes
Mallocs(self, key) ==
    IF KH_DictLookupIndex(self, key) = KH_NOT_FOUND
       /\ self.data_count >= ResizeThreshold(self.data_alloced)
    THEN BOOLEAN ELSE {TRUE}

\* The number of KH_DictSet and KH_DictDelete calls the caller makes
CallBudget == IF tracking THEN MaxLifeCalls ELSE MaxCalls

DictSet(k, v, okSlots, okPairs) ==
    /\ st = "alive"
    /\ calls < CallBudget
    /\ OrderOf(k) <= introduced + 1
    /\ LET key == Allocated(BlobOf[k], IF tracking THEN Len(frees) + 1 ELSE 0)
           value == Allocated(BlobOf[v], IF tracking THEN Len(frees) + 2 ELSE 0)
       IN  \E r \in {KH_DictSet(Self, key, value, okSlots, okPairs)} :
           /\ Becomes(r.self)
           /\ frees' = IF tracking
                       THEN Free(frees \o <<0, 0>>, DictSetFrees(Self, key, value))
                       ELSE frees
           /\ lost' = IF tracking /\ ~(okSlots /\ okPairs)
                      THEN lost \cup {key.addr, value.addr}
                      ELSE lost
           /\ last' = Call("Set", k, v, r.ret, r.freed, r.stored)
           /\ recent' = IF r.ret THEN [recent EXCEPT ![k] = v] ELSE recent
           /\ everset' = (everset \/ r.ret)
    /\ allocfail' = ~(okSlots /\ okPairs)
    /\ abs' = IF okSlots /\ okPairs THEN AbsSet(abs, k, v) ELSE abs
    /\ introduced' = IF OrderOf(k) > introduced THEN OrderOf(k) ELSE introduced
    /\ calls' = calls + 1
    /\ UNCHANGED <<st, nodelete, tracking>>

\* KH_DictGet and KH_DictHas leave the dictionary as it is; what they return
\* and free is KH_DictGet(Self, key) and KH_DictHas(Self, key)
DictGet(k) ==
    /\ st = "alive"
    /\ Becomes(KH_DictGet(Self, BlobOf[k]).self)
    /\ UNCHANGED <<st, last, introduced, calls, recent, nodelete, everset, allocfail,
                   abs, tracking, frees, lost>>

DictHas(k) ==
    /\ st = "alive"
    /\ Becomes(KH_DictHas(Self, BlobOf[k]).self)
    /\ UNCHANGED <<st, last, introduced, calls, recent, nodelete, everset, allocfail,
                   abs, tracking, frees, lost>>

DictDelete(k) ==
    /\ st = "alive"
    /\ calls < CallBudget
    /\ frees' = Free(frees, DictDeleteFrees(Self, Allocated(BlobOf[k], 0)))
    /\ \E r \in {KH_DictDelete(Self, BlobOf[k])} :
           /\ Becomes(r.self)
           /\ last' = Call("Delete", k, NoArg, r.ret, r.freed, r.stored)
           /\ recent' = IF r.ret THEN [recent EXCEPT ![k] = NoArg] ELSE recent
    /\ calls' = calls + 1
    /\ nodelete' = FALSE
    /\ allocfail' = FALSE
    /\ abs' = AbsDelete(abs, k)
    /\ UNCHANGED <<st, introduced, everset, tracking, lost>>

\* KH_ReleaseDict frees the slot array, the blobs of pairs 0..data_count-1,
\* the pair array and the structure
ReleaseDict ==
    /\ st = "alive"
    /\ st' = "released"
    /\ Becomes([slots |-> NullArray, pairs |-> NullArray,
                data_count |-> 0, data_alloced |-> 0])
    /\ last' = Call("ReleaseDict", NoArg, NoArg, TRUE,
                    {"slots", "pairs", "dict"}
                        \cup (IF data_count > 0 THEN {"pairs.key", "pairs.value"} ELSE {}),
                    {})
    /\ allocfail' = FALSE
    /\ abs' = <<>>
    /\ frees' = Free(frees, ReleaseDictFrees(Self))
    /\ UNCHANGED <<introduced, calls, recent, nodelete, everset, tracking, lost>>

Next ==
    \/ \E ok \in BOOLEAN : CreateDict(ok)
    \/ \E k \in KeyData : \E v \in ValuesOf(k) :
         \E okSlots, okPairs \in Mallocs(Self, BlobOf[k]) :
            DictSet(k, v, okSlots, okPairs)
    \/ \E k \in KeyData : DictGet(k)
    \/ \E k \in KeyData : DictHas(k)
    \/ \E k \in KeyData : DictDelete(k)
    \/ ReleaseDict

Spec == Init /\ [][Next]_vars

\* The same program and caller, with the addresses of the blobs followed
InitLife ==
    /\ st = "uninit"
    /\ slots = NullArray
    /\ pairs = NullArray
    /\ data_count = 0
    /\ data_alloced = 0
    /\ last = Call("none", NoArg, NoArg, FALSE, {}, {})
    /\ introduced = 0
    /\ calls = 0
    /\ recent = [k \in KeyData |-> NoArg]
    /\ nodelete = TRUE
    /\ everset = FALSE
    /\ allocfail = FALSE
    /\ abs = <<>>
    /\ tracking = TRUE
    /\ frees = <<>>
    /\ lost = {}

LifeSpec == InitLife /\ [][Next]_vars

\* The second caller's KH_DictSet(k, ChurnValueOf(k))
ChurnSet(k, okSlots, okPairs) ==
    /\ st = "alive"
    /\ calls < MaxChurnCalls
    /\ ChurnOrderOf(k) = introduced + 1
    /\ \E r \in {KH_DictSet(Self, BlobOf[k], BlobOf[ChurnValueOf(k)], okSlots, okPairs)} :
           /\ Becomes(r.self)
           /\ last' = Call("Set", k, ChurnValueOf(k), r.ret, r.freed, r.stored)
           /\ recent' = IF r.ret THEN [recent EXCEPT ![k] = ChurnValueOf(k)] ELSE recent
           /\ everset' = (everset \/ r.ret)
    /\ allocfail' = ~(okSlots /\ okPairs)
    /\ abs' = IF okSlots /\ okPairs THEN AbsSet(abs, k, ChurnValueOf(k)) ELSE abs
    /\ introduced' = IF ChurnOrderOf(k) > introduced THEN ChurnOrderOf(k) ELSE introduced
    /\ calls' = calls + 1
    /\ UNCHANGED <<st, nodelete, tracking, frees, lost>>

\* The keys the second caller deletes: that of one of the two oldest pairs,
\* or its first key, which may be gone
ChurnDeletes(k) ==
    \/ \E i \in 1..2 : i <= Len(abs) /\ abs[i][1] = k
    \/ introduced >= 1 /\ k = ChurnOrder[1]

\* The second caller's KH_DictDelete(k)
ChurnDelete(k) ==
    /\ st = "alive"
    /\ calls < MaxChurnCalls
    /\ ChurnDeletes(k)
    /\ \E r \in {KH_DictDelete(Self, BlobOf[k])} :
           /\ Becomes(r.self)
           /\ last' = Call("Delete", k, NoArg, r.ret, r.freed, r.stored)
           /\ recent' = IF r.ret THEN [recent EXCEPT ![k] = NoArg] ELSE recent
    /\ calls' = calls + 1
    /\ nodelete' = FALSE
    /\ allocfail' = FALSE
    /\ abs' = AbsDelete(abs, k)
    /\ UNCHANGED <<st, introduced, everset, tracking, frees, lost>>

InitChurn ==
    /\ st = "uninit"
    /\ slots = NullArray
    /\ pairs = NullArray
    /\ data_count = 0
    /\ data_alloced = 0
    /\ last = Call("none", NoArg, NoArg, FALSE, {}, {})
    /\ introduced = 0
    /\ calls = 0
    /\ recent = [k \in ChurnData |-> NoArg]
    /\ nodelete = TRUE
    /\ everset = FALSE
    /\ allocfail = FALSE
    /\ abs = <<>>
    /\ tracking = FALSE
    /\ frees = <<>>
    /\ lost = {}

ChurnNext ==
    \/ \E ok \in BOOLEAN : CreateDict(ok)
    \/ \E k \in ChurnData :
         \E okSlots, okPairs \in Mallocs(Self, BlobOf[k]) : ChurnSet(k, okSlots, okPairs)
    \/ \E k \in ChurnData : DictGet(k)
    \/ \E k \in ChurnData : DictHas(k)
    \/ \E k \in ChurnData : ChurnDelete(k)
    \/ ReleaseDict

ChurnSpec == InitChurn /\ [][ChurnNext]_vars

----------------------------------------------------------------------------
(* What the caller observes *)

Alive == st = "alive"

Has(self, k) == KH_DictHas(self, BlobOf[k]).ret
Get(self, k) == KH_DictGet(self, BlobOf[k]).ret
IndexOf(self, k) == KH_DictLookupIndex(self, BlobOf[k])

\* The bytes behind a blob pointer (NoArg behind NULL)
Bytes(ptr) == IF ptr = NULL THEN NoArg ELSE ptr[1].data

\* The step is a call of KH_DictSet, or of KH_DictDelete
SetStep == calls' = calls + 1 /\ last'.op = "Set"
DeleteStep == calls' = calls + 1 /\ last'.op = "Delete"

Positions(self) == 0..self.data_alloced

HasTombstone == \E i \in DOMAIN slots : slots[i] = KH_HASH_DELETED

----------------------------------------------------------------------------
(* Claims *)

\* C1: while no delete has been made, every key that a successful
\* KH_DictSet has set is reported present by KH_DictHas, and KH_DictGet
\* returns the value of the most recent successful Set of that key.
C1_SetThenGet ==
    (Alive /\ nodelete) =>
        \A k \in KeyData :
            recent[k] # NoArg =>
                /\ Has(Self, k)
                /\ Bytes(Get(Self, k)) = recent[k]

\* C1 witness: after six inserts (two resizes) and an update of <<8>>, with
\* no delete made
C1_Witness ==
    /\ Alive /\ nodelete
    /\ last.op = "Set" /\ last.ret
    /\ data_alloced = 2 * InitialSize
    /\ recent[<<8>>] = <<100>>
    /\ Cardinality({k \in KeyData : recent[k] # NoArg}) >= 6

\* C2: when KH_DictDelete(k) returns true, then right after it KH_DictHas(k)
\* is false, KH_DictLen is one less than before, and KH_DictGet of every other
\* key returns what it returned before (the same value for a key that was
\* present, not-found for a key that was not).
C2_DeleteRemovesOnlyKey ==
    [][(DeleteStep /\ last'.ret) =>
            /\ ~Has(Self', last'.key)
            /\ KH_DictLen(Self') = KH_DictLen(Self) - 1
            /\ \A k \in KeyData \ {last'.key} : Get(Self', k) = Get(Self, k)]_vars

\* C2 witness: a delete has succeeded and left at least two keys, one of
\* them behind the tombstone of its own home bucket
C2_Witness ==
    /\ Alive
    /\ last.op = "Delete" /\ last.ret
    /\ data_count >= 2
    /\ \E p \in 0..(data_count - 1) :
          slots[ToNat(KH_BlobStartingIndexForSize(pairs[p].key[1].hash, data_alloced))]
              = KH_HASH_DELETED

\* C3: a successful KH_DictDelete of the key at position i keeps the order of
\* the remaining entries: KeyIter(j) and ValueIter(j) are unchanged for j < i
\* and equal the old KeyIter(j+1) and ValueIter(j+1) for j >= i.
C3_DeleteKeepsOrder ==
    [][(DeleteStep /\ last'.ret) =>
            LET i == IndexOf(Self, last'.key)
            IN  \A j \in Positions(Self) :
                    IF j < i
                    THEN /\ KH_DictKeyIter(Self', j) = KH_DictKeyIter(Self, j)
                         /\ KH_DictValueIter(Self', j) = KH_DictValueIter(Self, j)
                    ELSE /\ KH_DictKeyIter(Self', j) = KH_DictKeyIter(Self, j + 1)
                         /\ KH_DictValueIter(Self', j) = KH_DictValueIter(Self, j + 1)]_vars

\* C3 witness: the second of three keys, <<8>>, was deleted: the iteration
\* order is <<0>>, <<2>>
C3_Witness ==
    /\ Alive
    /\ last.op = "Delete" /\ last.ret /\ last.key = <<8>>
    /\ data_count = 2
    /\ Bytes(KH_DictKeyIter(Self, 0)) = <<0>>
    /\ Bytes(KH_DictKeyIter(Self, 1)) = <<2>>
    /\ pairs[2].key # NULL

\* C4: KH_DictSet of a key that is present returns true, replaces that key's
\* value and nothing else: KH_DictLen, the capacity, the slot array, every key
\* position and every other value stay as they were.
C4_UpdateInPlace ==
    [][(SetStep /\ recent[last'.key] # NoArg) =>
            LET i == IndexOf(Self, last'.key)
            IN  /\ last'.ret
                /\ data_count' = data_count
                /\ data_alloced' = data_alloced
                /\ slots' = slots
                /\ Bytes(KH_DictValueIter(Self', i)) = last'.value
                /\ \A j \in Positions(Self) :
                      /\ KH_DictKeyIter(Self', j) = KH_DictKeyIter(Self, j)
                      /\ j # i => KH_DictValueIter(Self', j) = KH_DictValueIter(Self, j)]_vars

\* C4 witness: the value of <<8>>, at position 1 of at least three pairs, was
\* replaced by a different one
C4_Witness ==
    /\ Alive
    /\ last.op = "Set" /\ last.ret /\ last.key = <<8>> /\ last.value = <<100>>
    /\ last.stored = {"value"}
    /\ data_count >= 3
    /\ Bytes(KH_DictKeyIter(Self, 1)) = <<8>>
    /\ Bytes(KH_DictValueIter(Self, 1)) = <<100>>

\* C5: KH_DictDelete of a key that is not present (never set, removed
\* since, or the dictionary never populated) returns false and leaves count,
\* capacity, the pair array and the slot array as they were; on a dictionary
\* of capacity 0 KH_DictGet and KH_DictHas report not-found and the lookup
\* reads no slot.
C5_DeleteAbsent ==
    /\ [](Alive /\ data_alloced = 0 =>
            \A k \in KeyData :
                /\ Get(Self, k) = NULL
                /\ ~Has(Self, k)
                /\ LookupScan(Self, BlobOf[k]).reads = 0)
    /\ [][(DeleteStep /\ recent[last'.key] = NoArg) =>
                /\ ~last'.ret
                /\ Self' = Self]_vars

\* C5 witness: a second delete of the key whose removed pair is still in the
\* pair array behind the live ones has failed
C5_Witness ==
    /\ Alive
    /\ last.op = "Delete" /\ ~last.ret
    /\ data_alloced > 0 /\ HasTombstone
    /\ Bytes(pairs[data_count].key) = last.key

\* C6: a KH_DictSet that resizes doubles the capacity (8 from 0), and after
\* it every key that was live is retrieved with its value, every other key's
\* KH_DictGet is as before, and the entries that existed keep their positions.
C6_ResizeTransparent ==
    [][(SetStep /\ data_alloced' # data_alloced) =>
            /\ last'.ret
            /\ data_alloced' = IF data_alloced = 0 THEN InitialSize ELSE 2 * data_alloced
            /\ data_count' = data_count + 1
            /\ \A k \in KeyData \ {last'.key} :
                  /\ Get(Self', k) = Get(Self, k)
                  /\ recent[k] # NoArg => Bytes(Get(Self', k)) = recent[k]
            /\ \A j \in 0..(data_count - 1) :
                  /\ KH_DictKeyIter(Self', j) = KH_DictKeyIter(Self, j)
                  /\ KH_DictValueIter(Self', j) = KH_DictValueIter(Self, j)]_vars

\* C6 witness: the insert that grew the table from 8 to 16 slots, after a
\* delete had left a tombstone in the 8-slot table (of eight calls one was a
\* delete and seven were inserts; the resize has dropped the tombstone)
C6_Witness ==
    /\ Alive /\ ~nodelete
    /\ last.op = "Set" /\ last.ret /\ last.stored = {"key", "value"}
    /\ data_alloced = 2 * InitialSize
    /\ data_count = ResizeThreshold(InitialSize) + 1
    /\ Bytes(KH_DictKeyIter(Self, data_count - 1)) = last.key
    /\ calls = 8
    /\ ~HasTombstone

\* The scan from the home bucket of pair p reaches a slot holding p before
\* any EMPTY slot
ProbeReaches(self, p) ==
    LET n == self.data_alloced
        home == ToNat(KH_BlobStartingIndexForSize(self.pairs[p].key[1].hash, n))
    IN  \E d \in 0..(n - 1) :
            /\ self.slots[(home + d) % n] = p
            /\ \A e \in 0..(d - 1) : self.slots[(home + e) % n] # KH_HASH_EMPTY

\* C7: in every state, the scan from the home bucket of every live pair
\* reaches a slot holding that pair's index before any EMPTY slot, and the
\* lookup of its key returns that index (a tombstone does not end the scan).
C7_ProbeChain ==
    Alive =>
        \A p \in 0..(data_count - 1) :
            /\ ProbeReaches(Self, p)
            /\ KH_DictLookupIndex(Self, pairs[p].key[1]) = p

\* C7 witness: <<0>> and <<8>> shared the home bucket 5, <<0>> was deleted,
\* and <<8>> is found behind the tombstone
C7_Witness ==
    /\ Alive
    /\ data_alloced = InitialSize
    /\ slots[5] = KH_HASH_DELETED
    /\ recent[<<0>>] = NoArg
    /\ Get(Self, <<8>>) # NULL
    /\ slots[6] = IndexOf(Self, <<8>>)

\* Whether KH_DictSet of this key calls KH_ResizeDict
Resizes(self, k) ==
    /\ KH_DictLookupIndex(self, BlobOf[k]) = KH_NOT_FOUND
    /\ self.data_count >= ResizeThreshold(self.data_alloced)

\* C8: when an allocation of the resize fails, KH_DictSet of a new key
\* returns false and leaves count, capacity, the pair array and the slot array
\* as they were; KH_DictSet of a present key returns true whatever the
\* allocator does.
C8_ResizeFailure ==
    Alive =>
        \A k \in KeyData :
            (Resizes(Self, k) \/ recent[k] # NoArg) =>
                \A v \in ValuesOf(k) : \A okSlots, okPairs \in BOOLEAN :
                    \A r \in {KH_DictSet(Self, BlobOf[k], BlobOf[v], okSlots, okPairs)} :
                        /\ (Resizes(Self, k) /\ ~(okSlots /\ okPairs)) =>
                                (~r.ret /\ r.self = Self)
                        /\ recent[k] # NoArg => r.ret

\* C8 witness: a KH_DictSet of a sixth key has failed on a full 8-slot table,
\* which still holds its five pairs
C8_Witness ==
    /\ Alive
    /\ last.op = "Set" /\ ~last.ret
    /\ data_alloced = InitialSize
    /\ data_count = ResizeThreshold(InitialSize)
    /\ \A p \in 0..(data_count - 1) : ProbeReaches(Self, p)

\* C9: when KH_DictSet, KH_DictGet, KH_DictHas or KH_DictDelete returns,
\* every blob argument is stored in the pair array or was freed.
C9_ArgumentsConsumed ==
    /\ last.op = "Set" => {"key", "value"} \subseteq (last.freed \cup last.stored)
    /\ last.op = "Delete" => "key" \in (last.freed \cup last.stored)
    /\ Alive =>
          \A k \in KeyData :
              /\ "key" \in KH_DictGet(Self, BlobOf[k]).freed
              /\ "key" \in KH_DictHas(Self, BlobOf[k]).freed

\* C10: KH_CreateDict returns an empty dictionary (count = capacity = 0, no
\* arrays) or, when the allocation fails, NULL; it does not touch the
\* structure it could not allocate.
C10_CreateReturnsDictOrNull ==
    last.op = "CreateDict" =>
        \/ /\ last.ret /\ st = "alive"
           /\ data_count = 0 /\ data_alloced = 0
           /\ slots = NullArray /\ pairs = NullArray
        \/ ~last.ret /\ st = "null"

\* C11 as stated: count <= capacity and, whenever capacity > 0, count is
\* strictly below 5/8 of capacity after every operation.
C11_BelowThreshold ==
    Alive =>
        /\ data_count <= data_alloced
        /\ data_alloced > 0 => 8 * data_count < 5 * data_alloced

\* C11, amended: count <= capacity and count never exceeds 5/8 of capacity.
\* KH_DictInsert resizes when count has already reached 5/8 of capacity, so
\* count can equal 5/8 of capacity (5 of 8, 10 of 16) between two inserts.
C11_Occupancy ==
    Alive =>
        /\ data_count <= data_alloced
        /\ 8 * data_count <= 5 * data_alloced

\* C11 witness: the fifth insert into the 8-slot table has returned, and
\* count is exactly 5/8 of the capacity
C11_Witness ==
    /\ Alive
    /\ last.op = "Set" /\ last.ret /\ last.stored = {"key", "value"}
    /\ data_alloced = InitialSize
    /\ 8 * data_count = 5 * data_alloced

\* C12: the capacity is 0 or a power of two that is at least 8; it is 0
\* exactly when no KH_DictSet has returned true on this dictionary, and the
\* first KH_DictSet that returns true sets it to 8.
C12_CapacityPowerOfTwo ==
    /\ [](Alive =>
            /\ data_alloced \in {0} \cup {InitialSize * (2 ^ e) : e \in 0..20}
            /\ (data_alloced = 0) <=> ~everset)
    /\ [][(SetStep /\ ~everset /\ last'.ret) => data_alloced' = InitialSize]_vars

\* C12 witness: six inserts have grown the capacity to 8 and then to 16; one
\* more KH_DictSet call has stored no new pair
C12_Witness ==
    /\ Alive /\ everset
    /\ data_alloced = 2 * InitialSize
    /\ data_count = 6 /\ calls = 7 /\ nodelete
    /\ abs[2] = <<KeyOrder[2], <<2>>>>

\* C13: no call between KH_CreateDict and KH_ReleaseDict lowers the
\* capacity, and once it is above 0 it stays above 0, also when deletes bring
\* the count back to 0.
C13_CapacityMonotone ==
    [][(Alive /\ Alive') =>
            /\ data_alloced' >= data_alloced
            /\ data_alloced > 0 => data_alloced' > 0]_vars

\* C13 witness: a delete has removed the last pair of a populated
\* dictionary, which keeps its 8 slots
C13_Witness ==
    /\ Alive
    /\ last.op = "Delete" /\ last.ret
    /\ data_count = 0 /\ abs = <<>>
    /\ data_alloced = InitialSize
    /\ calls >= 4

\* C14: KH_DictLen returns the number of entries; KH_DictKeyIter(i) and
\* KH_DictValueIter(i) return the key and the value of the i-th entry when
\* i < count and NULL for every i >= count, also where the pair array still
\* holds the pointers of a removed pair and when the capacity is 0.
C14_IterBounds ==
    Alive =>
        /\ KH_DictLen(Self) = Len(abs)
        /\ \A i \in 0..(data_alloced + 1) :
              IF i < KH_DictLen(Self)
              THEN /\ KH_DictKeyIter(Self, i) # NULL
                   /\ KH_DictValueIter(Self, i) # NULL
                   /\ Bytes(KH_DictKeyIter(Self, i)) = abs[i + 1][1]
                   /\ Bytes(KH_DictValueIter(Self, i)) = abs[i + 1][2]
              ELSE /\ KH_DictKeyIter(Self, i) = NULL
                   /\ KH_DictValueIter(Self, i) = NULL

\* C14 witness: two pairs are live and the pair array still holds, right
\* behind them, the key and value pointers a delete has left
C14_Witness ==
    /\ Alive
    /\ data_count = 2
    /\ pairs[data_count].key # NULL /\ pairs[data_count].value # NULL
    /\ KH_DictKeyIter(Self, data_count) = NULL

\* C15: when the capacity is above 0, every slot holds KH_HASH_EMPTY,
\* KH_HASH_DELETED or an index s with 0 <= s < count; no slot refers to a
\* position of the pair array at or beyond count.
C15_SlotValidity ==
    (Alive /\ data_alloced > 0) =>
        /\ DOMAIN slots = 0..(data_alloced - 1)
        /\ \A i \in DOMAIN slots :
              \/ slots[i] = KH_HASH_EMPTY
              \/ slots[i] = KH_HASH_DELETED
              \/ slots[i] \in 0..(data_count - 1)

\* C15 witness: a delete of the first of several pairs has marked its slot
\* deleted and lowered the indexes in the other slots; the slot array holds
\* all three kinds of slot
C15_Witness ==
    /\ Alive
    /\ last.op = "Delete" /\ last.ret /\ last.key = KeyOrder[1]
    /\ data_count >= 3
    /\ \E i, j, k \in DOMAIN slots :
          /\ slots[i] = KH_HASH_EMPTY
          /\ slots[j] = KH_HASH_DELETED
          /\ slots[k] = data_count - 1

\* C16: no two live pairs (positions 0..count-1) have equal keys, where
\* equal means the same length and the same bytes.
C16_KeyUniqueness ==
    Alive =>
        \A i, j \in 0..(data_count - 1) :
            i # j =>
                \/ pairs[i].key[1].length # pairs[j].key[1].length
                \/ pairs[i].key[1].data # pairs[j].key[1].data

\* C16 witness: a KH_DictSet of a key that is stored behind a deleted slot
\* of its home bucket has replaced its value and added no pair
C16_Witness ==
    /\ Alive
    /\ last.op = "Set" /\ last.ret /\ last.stored = {"value"}
    /\ data_count >= 2
    /\ slots[ToNat(KH_BlobStartingIndexForSize(BlobOf[last.key].hash, data_alloced))]
          = KH_HASH_DELETED

\* C17: KH_BlobEqual is true exactly for blobs of the same length and the
\* same bytes; two keys with the same 32-bit hash and different content are
\* distinct keys: each is found only if it was set itself, both can be
\* stored, at different positions, and each retrieves its own value.
C17_BlobEquality ==
    [](/\ BlobEqualOnInputs = ByteEqualOnInputs
       /\ Alive =>
             \A k1, k2 \in KeyData :
                 (k1 # k2 /\ BlobOf[k1].hash = BlobOf[k2].hash) =>
                     /\ Has(Self, k1) <=> (AbsIndex(abs, k1) # 0)
                     /\ Bytes(Get(Self, k1)) = AbsGet(abs, k1)
                     /\ Has(Self, k1) => IndexOf(Self, k1) # IndexOf(Self, k2))

\* C17 witness: <<0,2>> and <<3,33>>, of length 2 and of the same hash, are
\* both stored with different values; the blobs compared include two of the
\* same hash and of different length
C17_Witness ==
    /\ Alive
    /\ BlobOf[<<0, 2>>].hash = BlobOf[<<3, 33>>].hash
    /\ AbsIndex(abs, <<0, 2>>) # 0 /\ AbsIndex(abs, <<3, 33>>) # 0
    /\ Bytes(Get(Self, <<0, 2>>)) # Bytes(Get(Self, <<3, 33>>))
    /\ EqualityBlobs[SameHashShort].hash = EqualityBlobs[SameHashLong].hash
    /\ EqualityBlobs[SameHashShort].length # EqualityBlobs[SameHashLong].length

\* C18: the dictionary refines the ordered map run beside it (Set replaces
\* in place or appends, Delete removes): after every call pairs[0..count) is
\* the abstract sequence, without a gap, and Len, Has, Get, KeyIter and
\* ValueIter return what the abstract map gives; KH_DictSet returns true
\* when its allocations succeed, KH_DictDelete returns whether the abstract
\* map held the key.
C18_Refinement ==
    /\ [](Alive =>
            /\ KH_DictLen(Self) = Len(abs)
            /\ \A i \in 1..Len(abs) :
                  /\ pairs[i - 1].key # NULL /\ pairs[i - 1].value # NULL
                  /\ <<pairs[i - 1].key[1].data, pairs[i - 1].value[1].data>> = abs[i]
                  /\ <<Bytes(KH_DictKeyIter(Self, i - 1)),
                        Bytes(KH_DictValueIter(Self, i - 1))>> = abs[i]
            /\ KH_DictKeyIter(Self, Len(abs)) = NULL
            /\ KH_DictValueIter(Self, Len(abs)) = NULL
            /\ \A k \in KeyData :
                  /\ Has(Self, k) <=> (AbsIndex(abs, k) # 0)
                  /\ Bytes(Get(Self, k)) = AbsGet(abs, k))
    /\ [][(SetStep /\ ~allocfail') => last'.ret]_vars
    /\ [][DeleteStep => (last'.ret <=> (AbsIndex(abs, last'.key) # 0))]_vars

\* C18 witness: after six inserts (two resizes), the delete of the first
\* key and an update of <<8>>, the map holds five entries in insertion order
C18_Witness ==
    /\ Alive /\ ~nodelete
    /\ data_alloced = 2 * InitialSize
    /\ Len(abs) = 5
    /\ abs[1] = <<KeyOrder[2], <<100>>>>
    /\ abs[5][1] = KeyOrder[6]
    /\ Bytes(KH_DictKeyIter(Self, 4)) = KeyOrder[6]

\* C19: the loop of KH_InsertSlot terminates.  In every state, for every
\* key that KH_DictSet would insert, each call of KH_InsertSlot (the one of
\* KH_DictInsert after the resize check, and the one per pair copied by
\* KH_ResizeDict) is given a slot array with an EMPTY or DELETED slot and
\* stops after reading at most capacity slots.
C19_InsertSlotTerminates ==
    [](Alive =>
        \A k \in KeyData :
            KH_DictLookupIndex(Self, BlobOf[k]) = KH_NOT_FOUND =>
                \A made \in {InsertSlotCalls(Self, BlobOf[k])} :
                    /\ Len(made) >= 1
                    /\ \A c \in 1..Len(made) :
                          /\ made[c].nslots > 0
                          /\ DOMAIN made[c].slots = 0..(made[c].nslots - 1)
                          /\ InsertSlotTerminates(made[c].slots)
                          /\ InsertSlotReads(made[c].slots, made[c].nslots,
                                ToNat(KH_BlobStartingIndexForSize(made[c].hash, made[c].nslots)),
                                0) <= made[c].nslots)

\* C19 witness: after a delete and an insert that took the deleted slot, an
\* insert into the 8-slot table found its home bucket 7 and the bucket after
\* it taken and stored its index after wrapping around; the next insert of a
\* new key will resize and place six pairs in 16 slots
C19_Witness ==
    /\ Alive
    /\ last.op = "Set" /\ last.ret /\ last.stored = {"key", "value"}
    /\ data_alloced = InitialSize
    /\ ToNat(KH_BlobStartingIndexForSize(BlobOf[last.key].hash, data_alloced)) = 7
    /\ slots[1] = data_count - 1
    /\ ~nodelete
    /\ \E k \in KeyData :
          /\ KH_DictLookupIndex(Self, BlobOf[k]) = KH_NOT_FOUND
          /\ Len(InsertSlotCalls(Self, BlobOf[k])) = 6

\* The addresses of the blobs that pairs 0..count-1 point to
LiveAddrs(self) ==
    {self.pairs[i].key[1].addr : i \in 0..(self.data_count - 1)}
        \cup {self.pairs[i].value[1].addr : i \in 0..(self.data_count - 1)}

\* The counts of fr with one more free of each address in addrs
FreedOnce(fr, addrs) ==
    [a \in DOMAIN fr |-> IF a \in addrs THEN fr[a] + 1 ELSE fr[a]]

\* C20: of the blobs passed to calls whose allocations succeed, none is
\* freed twice, the blobs of the live pairs are not freed and are the only
\* ones not freed, and after KH_ReleaseDict each was freed exactly once.  An
\* update frees the old value and the new key and stores the new value, a
\* delete frees the stored key, the stored value and its argument, and
\* KH_ReleaseDict frees the keys and values of pairs 0..count-1 and no other.
C20_BlobLifetime ==
    /\ [](tracking =>
            /\ \A a \in DOMAIN frees : frees[a] <= 1
            /\ Alive =>
                  /\ \A i \in 0..(data_count - 1) :
                        /\ pairs[i].key # NULL /\ pairs[i].value # NULL
                        /\ frees[pairs[i].key[1].addr] = 0
                        /\ frees[pairs[i].value[1].addr] = 0
                  /\ Cardinality(LiveAddrs(Self)) = 2 * data_count
                  /\ \A a \in (DOMAIN frees) \ lost :
                        (frees[a] = 0) <=> (a \in LiveAddrs(Self))
            /\ st = "released" =>
                  \A a \in (DOMAIN frees) \ lost : frees[a] = 1)
    /\ [][(tracking /\ SetStep /\ AbsIndex(abs, last'.key) # 0) =>
            LET i == AbsIndex(abs, last'.key) - 1
            IN  /\ frees' = FreedOnce(frees \o <<0, 0>>,
                                      {pairs[i].value[1].addr, Len(frees) + 1})
                /\ pairs'[i].key = pairs[i].key
                /\ pairs'[i].value[1].addr = Len(frees) + 2
                /\ last'.freed = {"pairs.value", "key"}]_vars
    /\ [][(tracking /\ DeleteStep /\ AbsIndex(abs, last'.key) # 0) =>
            LET i == AbsIndex(abs, last'.key) - 1
            IN  /\ frees' = FreedOnce(frees, {pairs[i].key[1].addr,
                                              pairs[i].value[1].addr})
                /\ last'.freed = {"pairs.key", "pairs.value", "key"}]_vars
    /\ [][(tracking /\ Alive /\ st' = "released") =>
            frees' = FreedOnce(frees, LiveAddrs(Self))]_vars

\* C20 witness: the dictionary was released after six calls without a
\* failed allocation, five KH_DictSet and a KH_DictDelete that removed a
\* pair; the pair array held the removed pair's pointers behind the live
\* ones, and each of the ten blobs was freed once
C20_Witness ==
    /\ tracking
    /\ st = "released"
    /\ calls = 6 /\ ~nodelete /\ lost = {}
    /\ Len(frees) = 10
    /\ \E k \in KeyData : recent[k] = NoArg /\ OrderOf(k) <= introduced
    /\ \A a \in DOMAIN frees : frees[a] = 1

\* The positions of the slot array that hold the pair index s
SlotsHolding(sl, s) == {p \in DOMAIN sl : sl[p] = s}

\* C21: a successful KH_DictDelete of the pair at index i marks the one slot
\* that held i deleted, lowers by one every slot index above i, and leaves
\* the slot indexes below i and the EMPTY and DELETED slots as they were; every
\* surviving pair is referenced from the slot position it had before.
C21_DeleteSlotFixup ==
    [][(DeleteStep /\ last'.ret) =>
            \A i \in {IndexOf(Self, last'.key)} :
                /\ Cardinality(SlotsHolding(slots, i)) = 1
                /\ DOMAIN slots' = DOMAIN slots
                /\ \A p \in DOMAIN slots :
                      IF slots[p] = KH_HASH_EMPTY \/ slots[p] = KH_HASH_DELETED
                      THEN slots'[p] = slots[p]
                      ELSE IF slots[p] = i THEN slots'[p] = KH_HASH_DELETED
                      ELSE IF slots[p] > i THEN slots'[p] = slots[p] - 1
                      ELSE slots'[p] = slots[p]
                /\ \A s \in (0..(data_count - 1)) \ {i} :
                      \A t \in {IF s > i THEN s - 1 ELSE s} :
                          /\ pairs'[t] = pairs[s]
                          /\ SlotsHolding(slots', t) = SlotsHolding(slots, s)
                          /\ SlotsHolding(slots, s) # {}]_vars

\* C21 witness: <<8>>, at index 1 between <<0>> and <<0,2>>, was deleted from
\* an 8-slot table that already had a deleted slot (7): slot 6 is now deleted
\* too, slot 5 still holds 0, and slot 0 holds 1 instead of 2
C21_Witness ==
    /\ Alive
    /\ last.op = "Delete" /\ last.ret /\ last.key = <<8>>
    /\ data_alloced = InitialSize /\ data_count = 2
    /\ Bytes(KH_DictKeyIter(Self, 0)) = <<0>>
    /\ Bytes(KH_DictKeyIter(Self, 1)) = <<0, 2>>
    /\ slots[5] = 0 /\ slots[6] = KH_HASH_DELETED
    /\ slots[7] = KH_HASH_DELETED /\ slots[0] = 1
    /\ slots[1] = KH_HASH_EMPTY

\* The slot of pair p is the first one, scanning up from the home bucket of
\* its key and wrapping around, that no pair before p holds
PlacedByProbing(self, p) ==
    LET n == self.data_alloced
        home == ToNat(KH_BlobStartingIndexForSize(self.pairs[p].key[1].hash, n))
    IN  \E d \in 0..(n - 1) :
            /\ self.slots[(home + d) % n] = p
            /\ \A e \in 0..(d - 1) : self.slots[(home + e) % n] \in 0..(p - 1)

\* The dictionary new as a resize of the dictionary old leaves it
RebuiltFrom(old, new) ==
    /\ new.data_alloced = IF old.data_alloced = 0 THEN InitialSize
                                                       ELSE 2 * old.data_alloced
    /\ DOMAIN new.slots = 0..(new.data_alloced - 1)
    /\ \A i \in DOMAIN new.slots : new.slots[i] # KH_HASH_DELETED
    /\ Cardinality({i \in DOMAIN new.slots : new.slots[i] \in 0..(new.data_count - 1)})
          = new.data_count
    /\ Cardinality({i \in DOMAIN new.slots : new.slots[i] = KH_HASH_EMPTY})
          = new.data_alloced - new.data_count
    /\ \A p \in 0..(new.data_count - 1) : PlacedByProbing(new, p)
    /\ \A p \in 0..(old.data_count - 1) : new.pairs[p] = old.pairs[p]

ClearFrom(prs, i) == \A j \in DOMAIN prs : j >= i => prs[j] = NullPair

\* C23: KH_ResizeDict counts the pairs it copies up to the first NULL key or
\* value, and whenever it runs that number is the count before the resize:
\* positions 0..count-1 are live, position count and those behind it were
\* never written, so no pair a delete has left behind the live ones is copied.
\* Such pairs only ever lie below the resize threshold.
C23_ResizePreservesCount ==
    /\ [](Alive /\ data_count >= ResizeThreshold(data_alloced) =>
            /\ \A i \in 0..(data_count - 1) :
                  pairs[i].key # NULL /\ pairs[i].value # NULL
            /\ ClearFrom(pairs, data_count)
            /\ \A r \in {KH_ResizeDict(Self, TRUE, TRUE)} :
                  /\ r.self.data_count = data_count
                  /\ ClearFrom(r.self.pairs, data_count))
    /\ [](Alive => ClearFrom(pairs, ResizeThreshold(data_alloced)))
    /\ [][(SetStep /\ data_alloced' # data_alloced) =>
                /\ data_count' = data_count + 1
                /\ ClearFrom(pairs', data_count')]_vars

\* C23 witness: the delete of <<0>> from five pairs left the fifth pair's
\* pointers behind the four live ones; <<0>> was set again, over them, and the
\* insert of <<16>> has resized to 16 slots and counted five pairs
C23_Witness ==
    /\ Alive /\ ~nodelete
    /\ last.op = "Set" /\ last.ret /\ last.key = <<16>>
    /\ data_alloced = 2 * InitialSize
    /\ data_count = ResizeThreshold(InitialSize) + 1
    /\ Bytes(KH_DictKeyIter(Self, 4)) = <<0>>
    /\ Bytes(KH_DictKeyIter(Self, 5)) = <<16>>
    /\ pairs[6] = NullPair

\* C24: in every state each pair index 0..count-1 is held by exactly one
\* slot, and the number of slots that hold an index is count: no index is
\* referenced twice and none is missing.
C24_SlotPairBijection ==
    [](Alive =>
        /\ \A p \in 0..(data_count - 1) : Cardinality(SlotsHolding(slots, p)) = 1
        /\ Cardinality({i \in DOMAIN slots : ~IsFreeSlot(slots[i])}) = data_count)

\* C24 witness: the caller's last call has inserted a fourth pair, away from
\* its home bucket, into an 8-slot table that has a deleted slot
C24_Witness ==
    /\ Alive
    /\ last.op = "Set" /\ last.ret /\ last.stored = {"key", "value"}
    /\ data_alloced = InitialSize /\ data_count = 4
    /\ calls = MaxCalls
    /\ HasTombstone
    /\ slots[ToNat(KH_BlobStartingIndexForSize(BlobOf[last.key].hash, data_alloced))]
          # data_count - 1

\* Every slot of the table is an index or DELETED
NoEmptySlot(self) ==
    /\ self.data_alloced > 0
    /\ \A i \in DOMAIN self.slots : self.slots[i] # KH_HASH_EMPTY

\* C25: only a resize gives a slot back to EMPTY (an insert may turn a
\* DELETED slot into an index, a delete never clears one), so deletes and
\* sets of new keys reach states without an EMPTY slot while the count is at
\* or below the resize threshold.  In every such state KH_DictGet, KH_DictHas
\* and KH_DictDelete of an absent key report not-found, after a scan that
\* reads exactly capacity slots, and KH_DictGet and KH_DictHas of every live
\* key succeed.
C25_NoEmptySlot ==
    /\ [](Alive /\ NoEmptySlot(Self) =>
            /\ data_count <= ResizeThreshold(data_alloced)
            /\ \A k \in ChurnData :
                  IF AbsIndex(abs, k) = 0
                  THEN /\ Get(Self, k) = NULL
                       /\ ~Has(Self, k)
                       /\ \A r \in {KH_DictDelete(Self, BlobOf[k])} :
                             ~r.ret /\ r.self = Self
                       /\ LookupScan(Self, BlobOf[k]).reads = data_alloced
                  ELSE /\ Has(Self, k)
                       /\ Bytes(Get(Self, k)) = AbsGet(abs, k))
    /\ [][(Alive /\ Alive' /\ data_alloced' = data_alloced) =>
            \A i \in DOMAIN slots :
                slots'[i] = KH_HASH_EMPTY => slots[i] = KH_HASH_EMPTY]_vars
    /\ [][(DeleteStep /\ NoEmptySlot(Self) /\ AbsIndex(abs, last'.key) = 0) =>
            ~last'.ret /\ Self' = Self]_vars

\* C25 witness: in an 8-slot table of which three slots are DELETED and five
\* hold an index, a KH_DictDelete of an absent key has returned false; one
\* of the live keys lies behind a DELETED slot of its home bucket
C25_Witness ==
    /\ Alive
    /\ data_alloced = InitialSize /\ NoEmptySlot(Self)
    /\ data_count = ResizeThreshold(InitialSize)
    /\ Cardinality({i \in DOMAIN slots : slots[i] = KH_HASH_DELETED}) = 3
    /\ last.op = "Delete" /\ ~last.ret
    /\ LookupScan(Self, BlobOf[last.key]).reads = InitialSize
    /\ \E p \in 0..(data_count - 1) :
          slots[ToNat(KH_BlobStartingIndexForSize(pairs[p].key[1].hash, data_alloced))]
              = KH_HASH_DELETED

\* How many slots after the home bucket of the key k the slot q lies
ProbeDistance(self, k, q) ==
    (q + self.data_alloced
        - ToNat(KH_BlobStartingIndexForSize(BlobOf[k].hash, self.data_alloced)))
    % self.data_alloced

\* C26: KH_DictDelete of a live key followed by KH_DictSet of the same key
\* succeeds without a resize, even if every malloc would fail; the key is
\* then the last entry (position count-1) with the new value, the entries
\* that were behind it have moved up by one, KH_DictLen is what it was
\* before the delete, and the key is found, in a slot that was free after the
\* delete and is no farther from its home bucket than the slot it left.
C26_DeleteThenSet ==
    /\ [](Alive =>
            \A k \in KeyData : \A i \in {IndexOf(Self, k)} :
                i # KH_NOT_FOUND =>
                    \A v \in ValuesOf(k) :
                    \A d \in {KH_DictDelete(Self, BlobOf[k])} :
                    \A r \in {KH_DictSet(d.self, BlobOf[k], BlobOf[v], FALSE, FALSE)} :
                    \A n \in {KH_DictLen(Self)} :
                        /\ d.ret /\ r.ret /\ r.stored = {"key", "value"}
                        /\ d.self.data_count < ResizeThreshold(d.self.data_alloced)
                        /\ r.self.data_alloced = data_alloced
                        /\ KH_DictLen(r.self) = n
                        /\ Bytes(KH_DictKeyIter(r.self, n - 1)) = k
                        /\ Bytes(KH_DictValueIter(r.self, n - 1)) = v
                        /\ KH_DictLookupIndex(r.self, BlobOf[k]) = n - 1
                        /\ Bytes(KH_DictGet(r.self, BlobOf[k]).ret) = v
                        /\ \A j \in 0..(n - 2) :
                              /\ KH_DictKeyIter(r.self, j)
                                    = KH_DictKeyIter(Self, IF j < i THEN j ELSE j + 1)
                              /\ KH_DictValueIter(r.self, j)
                                    = KH_DictValueIter(Self, IF j < i THEN j ELSE j + 1)
                        /\ \A q \in SlotsHolding(r.self.slots, n - 1) :
                              /\ IsFreeSlot(d.self.slots[q])
                              /\ \A o \in SlotsHolding(slots, i) :
                                    ProbeDistance(Self, k, q) <= ProbeDistance(Self, k, o))
    /\ [][(SetStep /\ last.op = "Delete" /\ last.ret /\ last'.key = last.key) =>
            /\ last'.ret /\ last'.stored = {"key", "value"}
            /\ KH_DictLen(Self') = KH_DictLen(Self) + 1
            /\ Bytes(KH_DictKeyIter(Self', KH_DictLen(Self') - 1)) = last'.key
            /\ Bytes(KH_DictValueIter(Self', KH_DictLen(Self') - 1)) = last'.value
            /\ IndexOf(Self', last'.key) = KH_DictLen(Self') - 1
            /\ \A j \in 0..(data_count - 1) :
                  KH_DictKeyIter(Self', j) = KH_DictKeyIter(Self, j)]_vars

\* C26 witness: four calls have set <<0>> (slot 5, position 0) and <<8>>
\* (slot 6), deleted <<0>> and set it again: it is now at position 1, behind
\* <<8>>, in the slot 5 its delete had marked, and the length is 2 again
C26_Witness ==
    /\ Alive
    /\ calls = 4
    /\ last.op = "Set" /\ last.ret /\ last.key = <<0>>
    /\ last.stored = {"key", "value"}
    /\ KH_DictLen(Self) = 2
    /\ Bytes(KH_DictKeyIter(Self, 0)) = <<8>>
    /\ Bytes(KH_DictKeyIter(Self, 1)) = <<0>>
    /\ slots[5] = 1 /\ slots[6] = 0
    /\ Bytes(Get(Self, <<0>>)) = <<1>>

====
